---------------------------- MODULE Spec2Model ----------------------------
(***************************************************************************)
(* AutomationX-TTS: the background job system of src/api.py (job registry, *)
(* process_tts_job, the submit/status/download handlers, cleanup_old_jobs) *)
(* and the idle-timeout model cache of src/core/cache.py.                  *)
(*                                                                         *)
(* Job objects are numbered 1..Len(status) in order of construction; the   *)
(* registry `jobs` maps job ids to job objects, as the dict of api.py      *)
(* does.  Every statement of process_tts_job that reads or writes state    *)
(* another thread can see is a step of its own.                            *)
(***************************************************************************)
EXTENDS Integers, Sequences, FiniteSets, TLC

(***************************************************************************)
(* Bounds of the model.                                                    *)
(***************************************************************************)
MaxJobs == 2
MaxChunks == 2
MaxTicks == 1
MaxCacheTicks == 3
MaxThreads == 2
MaxHistory == 2
MaxLoads == 2
MaxTextLen == 5
MaxL == 3
MaxSegs == 3

(***************************************************************************)
(* Program constants.                                                      *)
(***************************************************************************)
JobMaxAge == 3600
MaxAttempts == 3
LastAttempt == 2
DefaultTimeout == 600
SilenceMs == 150
FadeMs == 30

(***************************************************************************)
(* Input domains.                                                          *)
(***************************************************************************)
\* the values str(uuid.uuid4())[:8] can take (api.py:291), in some order
IdSeq == <<"a1b2", "c3d4", "e5f6">>
JobIds == {IdSeq[k] : k \in DOMAIN IdSeq}
\* request texts, as sequences of characters
Texts == {<<>>, <<" ", "\t">>, <<"a">>, <<" ", "a", " ">>}
Whitespace == {" ", "\t", "\n"}
\* str(e) of an exception raised by a collaborator
Msgs == {"", "err"}
\* the seed of a request (-1 asks for a random one) and what
\* random.randint(0, 999999) returns
Seeds == {-1, 0, 7}
RandomSeeds == {3}
\* tts.sr of the loaded model
SampleRates == {24000}
\* number of samples generate() returns for a chunk
GenLens == {7}
\* cache keys ("tts" is the one the application uses)
Keys == {"tts", "aux"}
\* the objects a loader returns, numbered by load
Instances == {1}
\* values of MODEL_IDLE_TIMEOUT and of the timeout_seconds setter
Timeouts == {-1, 0, DefaultTimeout}

None == "None"
\* Python's None where a model object is expected
NoModel == 0
NoPath == <<>>
\* the global generator is not in a freshly seeded state
NoSeed == -1
NoExc == [at |-> "none", kind |-> "none", msg |-> None]
NoResp == [op |-> "none", code |-> 0, id |-> None]

VARIABLES
    jobs,          \* api.jobs: job id -> job object
    id,            \* Job.id, per job object
    status,        \* Job.status, per job object
    params,        \* Job.params
    result_path,   \* Job.result_path (NoPath is Python's None)
    error,         \* Job.error (None is Python's None)
    progress,      \* Job.progress, an exact fraction <<num, den>>
    created_at,    \* Job.created_at
    loc,           \* the frame of process_tts_job(job): pc and locals
    files,         \* files in state.outputs_dir
    uploads,       \* files in temp_uploads
    torch_seed,    \* torch's global generator: the seed set by the last
                   \* manual_seed, NoSeed once numbers have been drawn
    now,           \* the wall clock, in seconds
    resp,          \* the HTTP response sent by the step just taken
    models,        \* ModelCache._models
    last_access,   \* ModelCache._last_access
    timeout_seconds, \* ModelCache._timeout_seconds
    running,       \* ModelCache._running
    sweep,         \* the frames of the _cleanup_loop threads
    loads,         \* how many times _load_tts_model has been called
    history        \* the rows of the history table, oldest first

jobVars == <<jobs, id, status, params, result_path, error, progress, created_at,
             loc, files, uploads, torch_seed>>
cacheVars == <<models, last_access, timeout_seconds, running, sweep, loads>>
vars == <<jobVars, cacheVars, history, now, resp>>

(***************************************************************************)
(* Helpers.                                                                *)
(***************************************************************************)
RECURSIVE GCD(_, _)
GCD(a, b) == IF b = 0 THEN a ELSE GCD(b, a % b)

\* the fraction n/d in lowest terms
Frac(n, d) == LET g == GCD(n, d) IN <<n \div g, d \div g>>
FracLeq(p, q) == p[1] * q[2] <= q[1] * p[2]

RECURSIVE lstrip(_)
lstrip(s) == IF s # <<>> /\ Head(s) \in Whitespace THEN lstrip(Tail(s)) ELSE s

RECURSIVE rstrip(_)
rstrip(s) ==
    IF s # <<>> /\ s[Len(s)] \in Whitespace
    THEN rstrip(SubSeq(s, 1, Len(s) - 1))
    ELSE s

\* str.strip()
strip(s) == rstrip(lstrip(s))

Objs == DOMAIN status

\* f with key k bound to v (dict assignment)
Put(f, k, v) == [x \in DOMAIN f \cup {k} |-> IF x = k THEN v ELSE f[x]]
\* f without the keys in ks (del)
Drop(f, ks) == [x \in DOMAIN f \ ks |-> f[x]]

(***************************************************************************)
(* Values of process_tts_job.                                              *)
(***************************************************************************)
Exc(at, kind, msg) == [at |-> at, kind |-> kind, msg |-> msg]
Tensor(src, n) == [src |-> src, n |-> n]

\* the frame of a background task that has not run yet; a local that is no
\* longer read is reset to its value here
Frame0 ==
    [pc |-> "scheduled", model |-> NoModel, tts |-> NoModel, sr |-> 0,
     actual_seed |-> 0, total_chunks |-> 0, i |-> 0, attempt |-> 0,
     audio_segments |-> <<>>, wav |-> 0, filepath |-> NoPath, e |-> NoExc]
\* the frame after process_tts_job returned: its locals are gone
FrameDone == [Frame0 EXCEPT !.pc = "done"]

\* mutant: a placeholder of one second
SilenceOneSecond(sr) == Tensor("zeros", sr)

\* torch.zeros(1, int(tts.sr * 0.5))
Silence(sr) == Tensor("zeros", (sr * 5) \div 10)

RECURSIVE SumLen(_)
SumLen(segs) == IF segs = <<>> THEN 0 ELSE Head(segs).n + SumLen(Tail(segs))

\* a part of the tensor merge_audio_with_crossfade returns: segment k of the
\* input (0: the silence between two segments), and whether it was faded
Piece(k, seg, fade_out, fade_in) ==
    [k |-> k, seg |-> seg, fade_out |-> fade_out, fade_in |-> fade_in]

\* lines 65-66
silence_samples(sample_rate) == (sample_rate * SilenceMs) \div 1000
fade_samples(sample_rate) == (sample_rate * FadeMs) \div 1000

\* mutant: the silence is added after the last segment too
RECURSIVE ProcessedTrailing(_, _, _)
ProcessedTrailing(segments, sample_rate, i) ==
    IF i > Len(segments)
    THEN <<>>
    ELSE <<Piece(i, segments[i],
                 segments[i].n > fade_samples(sample_rate),
                 i > 1 /\ segments[i].n > fade_samples(sample_rate)),
           Piece(0, Tensor("zeros", silence_samples(sample_rate)), FALSE, FALSE)>>
         \o ProcessedTrailing(segments, sample_rate, i + 1)

merge_audio_with_trailing_silence(segments, sample_rate) ==
    IF Len(segments) = 1
    THEN <<Piece(1, segments[1], FALSE, FALSE)>>
    ELSE ProcessedTrailing(segments, sample_rate, 1)

\* lines 72-87: the list "processed", from segment i on
RECURSIVE Processed(_, _, _)
Processed(segments, sample_rate, i) ==
    IF i > Len(segments)
    THEN <<>>
    ELSE <<Piece(i, segments[i],
                 segments[i].n > fade_samples(sample_rate),
                 i > 1 /\ segments[i].n > fade_samples(sample_rate))>>
         \o (IF i < Len(segments)
             THEN <<Piece(0, Tensor("zeros", silence_samples(sample_rate)),
                          FALSE, FALSE)>>
             ELSE <<>>)
         \o Processed(segments, sample_rate, i + 1)

\* lines 49-89: the returned tensor as the sequence of its parts
merge_audio_with_crossfade(segments, sample_rate) ==
    IF Len(segments) = 1
    THEN <<Piece(1, segments[1], FALSE, FALSE)>>
    ELSE Processed(segments, sample_rate, 1)

RECURSIVE PiecesLen(_)
PiecesLen(ps) == IF ps = <<>> THEN 0 ELSE Head(ps).seg.n + PiecesLen(Tail(ps))

\* the length of wav after lines 141-144
MergedLen(segs, sr) == PiecesLen(merge_audio_with_crossfade(segs, sr))

(***************************************************************************)
(* Initial state: the module-level state of api.py and the ModelCache      *)
(* singleton as constructed.                                               *)
(***************************************************************************)
JobFields ==
    /\ jobs = [k \in {} |-> 0]
    /\ id = <<>>
    /\ status = <<>>
    /\ params = <<>>
    /\ result_path = <<>>
    /\ error = <<>>
    /\ progress = <<>>
    /\ created_at = <<>>
    /\ loc = <<>>
    /\ files = {}
    /\ uploads = {}
    /\ torch_seed = NoSeed
    /\ history = <<>>
    /\ now = 0

JobInit == JobFields /\ resp = NoResp

\* a _cleanup_loop thread that has not been started, or has returned
NoThread == [pc |-> "dead", current_time |-> 0, keys_to_remove |-> {}]

CacheInit(t) ==
    /\ models = [k \in {} |-> 0]
    /\ last_access = [k \in {} |-> 0]
    /\ timeout_seconds = t
    /\ running = FALSE
    /\ sweep = [t0 \in 1..MaxThreads |-> NoThread]
    /\ loads = 0

Init == JobInit /\ CacheInit(DefaultTimeout)

(***************************************************************************)
(* ModelCache (src/core/cache.py).  A method body that runs under          *)
(* self._lock is one step.                                                 *)
(***************************************************************************)
has(key) == key \in DOMAIN models

\* lines 67-74, called with the lock held: the new thread takes the first
\* free frame
_start_cleanup_thread ==
    IF running
    THEN UNCHANGED <<running, sweep>>
    ELSE /\ running' = TRUE
         /\ \E t \in 1..MaxThreads :
              /\ sweep[t].pc = "dead"
              /\ \A u \in 1..(t - 1) : sweep[u].pc # "dead"
              /\ sweep' = [sweep EXCEPT ![t].pc = "while"]

\* lines 34-37: the effect of get(key) on the timestamps
Touched(key) ==
    last_access' = IF has(key) THEN Put(last_access, key, now) ELSE last_access

\* lines 36-38: what get(key) returns
Got(key) == IF has(key) THEN models[key] ELSE NoModel

\* lines 32-38
get(key) ==
    /\ Touched(key)
    /\ UNCHANGED <<models, timeout_seconds, running, sweep, loads, jobVars, history, now, resp>>

\* lines 42-45: the effect of set(key, model)
Stored(key, model) ==
    /\ models' = Put(models, key, model)
    /\ last_access' = Put(last_access, key, now)
    /\ _start_cleanup_thread

\* lines 40-45
set(key, model) ==
    /\ Stored(key, model)
    /\ UNCHANGED <<timeout_seconds, loads, jobVars, history, now, resp>>

\* mutant: the timestamps are left behind
ClearedModelsOnly(key) ==
    /\ models' = IF key # None /\ key # "" THEN Drop(models, {key})
                                            ELSE [k \in {} |-> 0]
    /\ UNCHANGED last_access

\* lines 53-60: the effect of clear(key) on the two maps ("if key:" is false
\* for None and for the empty string)
Cleared(key) ==
    IF key # None /\ key # ""
    THEN IF has(key)
         THEN /\ models' = Drop(models, {key})
              /\ last_access' = Drop(last_access, {key})
         ELSE UNCHANGED <<models, last_access>>
    ELSE /\ models' = [k \in {} |-> 0]
         /\ last_access' = [k \in {} |-> 0]

\* lines 51-65, called by a client (api_unload calls clear())
clear(key) ==
    /\ Cleared(key)
    /\ UNCHANGED <<timeout_seconds, running, sweep, loads, jobVars, history, now, resp>>

\* lines 128-130
set_timeout_seconds(value) ==
    /\ timeout_seconds' = IF value > 0 THEN value ELSE 0
    /\ UNCHANGED <<models, last_access, running, sweep, loads, jobVars, history, now, resp>>

(***************************************************************************)
(* POST /generate/async                                                    *)
(***************************************************************************)
Job(job_id, p) ==
    /\ id' = Append(id, job_id)
    /\ status' = Append(status, "pending")
    /\ params' = Append(params, p)
    /\ result_path' = Append(result_path, NoPath)
    /\ error' = Append(error, None)
    /\ progress' = Append(progress, Frac(0, 1))
    /\ created_at' = Append(created_at, now)

\* mutant: the text is validated before it is stripped
api_generate_async_unstripped(text, seed, ref_audio, job_id) ==
    LET t == strip(text) IN
    IF text = <<>>
    THEN /\ resp' = [op |-> "submit", code |-> 400, id |-> None]
         /\ UNCHANGED <<jobVars, cacheVars, history, now>>
    ELSE /\ Len(status) < MaxJobs
         /\ uploads' = IF ref_audio THEN uploads \cup {job_id} ELSE uploads
         /\ Job(job_id, [text |-> t, seed |-> seed,
                         ref_audio_path |-> IF ref_audio THEN job_id ELSE None])
         /\ jobs' = Put(jobs, job_id, Len(status) + 1)
         /\ loc' = Append(loc, Frame0)
         /\ resp' = [op |-> "submit", code |-> 200, id |-> job_id]
         /\ UNCHANGED <<files, cacheVars, history, torch_seed, now>>

api_generate_async(text, seed, ref_audio, job_id) ==
    LET t == strip(text) IN
    IF t = <<>>
    THEN /\ resp' = [op |-> "submit", code |-> 400, id |-> None]
         /\ UNCHANGED <<jobVars, cacheVars, history, now>>
    ELSE /\ Len(status) < MaxJobs
         /\ uploads' = IF ref_audio THEN uploads \cup {job_id} ELSE uploads
         /\ Job(job_id, [text |-> t, seed |-> seed,
                         ref_audio_path |-> IF ref_audio THEN job_id ELSE None])
         /\ jobs' = Put(jobs, job_id, Len(status) + 1)
         /\ loc' = Append(loc, Frame0)
         /\ resp' = [op |-> "submit", code |-> 200, id |-> job_id]
         /\ UNCHANGED <<files, cacheVars, history, torch_seed, now>>

(***************************************************************************)
(* cleanup_old_jobs                                                        *)
(***************************************************************************)
\* mutant: only jobs that have ended are reclaimed
ToDeleteEnded ==
    {k \in DOMAIN jobs : /\ now - created_at[jobs[k]] > JobMaxAge
                         /\ status[jobs[k]] \in {"completed", "failed"}}

\* lines 62-67
ToDelete == {k \in DOMAIN jobs : now - created_at[jobs[k]] > JobMaxAge}

cleanup_old_jobs ==
    /\ files' = files \ {result_path[jobs[k]] : k \in ToDelete}
    /\ jobs' = Drop(jobs, ToDelete)

(***************************************************************************)
(* process_tts_job(job), statement by statement.  j is the job object.     *)
(***************************************************************************)
Goto(j, pc) == loc' = [loc EXCEPT ![j] = [Frame0 EXCEPT !.pc = pc]]

\* mutant: no handler; the exception ends the task
RaiseUnhandled(j, x) == loc' = [loc EXCEPT ![j] = FrameDone]

\* an exception reaches the handler of line 175
Raise(j, x) == loc' = [loc EXCEPT ![j] = [Frame0 EXCEPT !.pc = "except", !.e = x]]

\* line 96: seed if seed >= 0 else random.randint(0, 999999)
ActualSeeds(seed) == IF seed >= 0 THEN {seed} ELSE RandomSeeds

\* lines 80-97: status, the parameters, actual_seed and torch.manual_seed
Start(j) ==
    /\ loc[j].pc = "scheduled"
    /\ status' = [status EXCEPT ![j] = "processing"]
    /\ \E actual_seed \in ActualSeeds(params[j].seed) :
         /\ loc' = [loc EXCEPT ![j].pc = "load", ![j].actual_seed = actual_seed]
         /\ torch_seed' = actual_seed
    /\ resp' = NoResp
    /\ UNCHANGED <<jobs, id, params, result_path, error, progress, created_at, files, uploads, cacheVars, history, now>>

\* lines 81-99 and state.py:69: if not model_cache.has("tts")
TtsHas(j) ==
    /\ loc[j].pc = "load"
    /\ loc' = [loc EXCEPT ![j].pc = IF has("tts") THEN "tts_get" ELSE "tts_load"]
    /\ UNCHANGED cacheVars

\* mutant: the failing loader leaves a timestamp and a sweep thread behind
TtsLoadPartialEntry(j) ==
    /\ loc[j].pc = "tts_load"
    /\ loads' = loads + 1
    /\ \/ /\ loc' = [loc EXCEPT ![j].pc = "tts_set", ![j].model = loads + 1]
          /\ UNCHANGED <<last_access, running, sweep>>
       \/ /\ Raise(j, Exc("load", "ModelLoadError", "TTS model yuklenemedi"))
          /\ last_access' = Put(last_access, "tts", now)
          /\ _start_cleanup_thread
    /\ UNCHANGED <<models, timeout_seconds>>

\* state.py:70, the argument: self._load_tts_model() returns a new model
\* or raises ModelLoadError (state.py:95)
TtsLoad(j) ==
    /\ loc[j].pc = "tts_load"
    /\ loads' = loads + 1
    /\ \/ loc' = [loc EXCEPT ![j].pc = "tts_set", ![j].model = loads + 1]
       \/ Raise(j, Exc("load", "ModelLoadError", "TTS model yuklenemedi"))
    /\ UNCHANGED <<models, last_access, timeout_seconds, running, sweep>>

\* state.py:70, the call: model_cache.set("tts", model)
TtsSet(j) ==
    /\ loc[j].pc = "tts_set"
    /\ Stored("tts", loc[j].model)
    /\ loc' = [loc EXCEPT ![j].pc = "tts_get", ![j].model = NoModel]
    /\ UNCHANGED <<timeout_seconds, loads>>

\* state.py:71 and line 99: tts = model_cache.get("tts")
TtsGet(j) ==
    /\ loc[j].pc = "tts_get"
    /\ Touched("tts")
    /\ \E sr \in SampleRates :
         loc' = [loc EXCEPT ![j].pc = "plan",
                            ![j].tts = Got("tts"),
                            ![j].sr = IF has("tts") THEN sr ELSE 0]
    /\ UNCHANGED <<models, timeout_seconds, running, sweep, loads>>

\* lines 81-99: tts = state.tts_model (state.py:66-71)
Load(j) ==
    /\ \/ TtsHas(j)
       \/ TtsLoad(j)
       \/ TtsSet(j)
       \/ TtsGet(j)
    /\ resp' = NoResp
    /\ UNCHANGED <<jobs, id, status, params, result_path, error, progress,
                   created_at, files, uploads, history, torch_seed, now>>

\* lines 100-109: chunks = split_into_sentences(...), never empty (utils.py:46)
Plan(j) ==
    /\ loc[j].pc = "plan"
    /\ \E n \in 1..MaxChunks :
         loc' = [loc EXCEPT ![j].pc = "chunk", ![j].total_chunks = n,
                            ![j].i = 0, ![j].audio_segments = <<>>]
    /\ resp' = NoResp
    /\ UNCHANGED <<jobs, id, status, params, result_path, error, progress,
                   created_at, files, uploads, cacheVars, history, torch_seed, now>>

\* mutant: the progress of the chunks done after this one, unscaled
ChunkProgressAfter(i, total) == Frac(i + 1, total)

\* (i / total_chunks) * 0.8
ChunkProgress(i, total) == Frac(i * 8, total * 10)

\* lines 111-115: the head of the chunk loop
ChunkBegin(j) ==
    /\ loc[j].pc = "chunk"
    /\ progress' = [progress EXCEPT
                      ![j] = ChunkProgress(loc[j].i, loc[j].total_chunks)]
    /\ loc' = [loc EXCEPT ![j].pc = "seed", ![j].attempt = 0]
    /\ resp' = NoResp
    /\ UNCHANGED <<jobs, id, status, params, result_path, error, created_at, files, uploads, cacheVars, history, torch_seed, now>>

\* mutant: the new segment is put in front of the list
InsertSegmentFirst(j, wav_chunk) ==
    loc' = [loc EXCEPT
              ![j].audio_segments = <<wav_chunk>> \o @,
              ![j].i = @ + 1,
              ![j].attempt = 0,
              ![j].pc = IF loc[j].i + 1 < loc[j].total_chunks
                        THEN "chunk" ELSE "assemble"]

\* lines 136-137, and the loop's next iteration or its end
AppendSegment(j, wav_chunk) ==
    loc' = [loc EXCEPT
              ![j].audio_segments = Append(@, wav_chunk),
              ![j].i = @ + 1,
              ![j].attempt = 0,
              ![j].pc = IF loc[j].i + 1 < loc[j].total_chunks
                        THEN "chunk" ELSE "assemble"]

\* lines 132-134: the body of the handler of a RuntimeError
OnRuntimeError(j) ==
    IF loc[j].attempt = LastAttempt
    THEN AppendSegment(j, Silence(loc[j].sr))
    ELSE loc' = [loc EXCEPT ![j].attempt = @ + 1, ![j].pc = "seed"]

\* mutant: no handler around tts.generate
GenerateRaisesUncaught(j, x) == Raise(j, x)

\* line 131: except RuntimeError catches x or lets it pass to line 175
GenerateRaises(j, x) ==
    IF x.kind = "RuntimeError" THEN OnRuntimeError(j) ELSE Raise(j, x)

\* what tts.generate can raise
GenerateErrors ==
    {Exc("generate", kind, msg) : kind \in {"RuntimeError", "Exception"},
                                  msg \in Msgs}

\* mutant: every attempt of a chunk is seeded with chunk_seed
current_seed_of_chunk(actual_seed, i, attempt) == actual_seed + i

\* lines 113 and 118: chunk_seed + (attempt * 100)
current_seed(actual_seed, i, attempt) == (actual_seed + i) + (attempt * 100)

\* lines 116-121: the next attempt of the retry loop begins with
\* torch.manual_seed(current_seed)
SetSeed(j) ==
    /\ loc[j].pc = "seed"
    /\ loc[j].attempt < MaxAttempts
    /\ torch_seed' = current_seed(loc[j].actual_seed, loc[j].i, loc[j].attempt)
    /\ loc' = [loc EXCEPT ![j].pc = "generate"]
    /\ resp' = NoResp
    /\ UNCHANGED <<jobs, id, status, params, result_path, error, progress,
                   created_at, files, uploads, cacheVars, history, now>>

\* lines 123-134: tts.generate(...) of this attempt returns or raises; a
\* call that reaches the model draws from the global generator
Generate(j) ==
    /\ loc[j].pc = "generate"
    /\ loc[j].attempt < MaxAttempts
    /\ IF loc[j].tts = NoModel
       THEN /\ GenerateRaises(j, Exc("generate", "AttributeError",
                                     "'NoneType' object has no attribute 'generate'"))
            /\ UNCHANGED torch_seed
       ELSE /\ \/ \E n \in GenLens : AppendSegment(j, Tensor("gen", n))
               \/ \E x \in GenerateErrors : GenerateRaises(j, x)
            /\ torch_seed' = NoSeed
    /\ resp' = NoResp
    /\ UNCHANGED <<jobs, id, status, params, result_path, error, progress,
                   created_at, files, uploads, cacheVars, history, now>>

\* line 139
AfterLoop(j) ==
    /\ loc[j].pc = "assemble"
    /\ progress' = [progress EXCEPT ![j] = Frac(85, 100)]
    /\ loc' = [loc EXCEPT ![j].pc = "merge"]
    /\ resp' = NoResp
    /\ UNCHANGED <<jobs, id, status, params, result_path, error, created_at, files, uploads, cacheVars, history, torch_seed, now>>

\* lines 141-146: merge (or take the only segment), then progress = 0.9
Merge(j) ==
    /\ loc[j].pc = "merge"
    /\ \/ /\ Len(loc[j].audio_segments) >= 1
          /\ loc' = [loc EXCEPT
                       ![j].pc = "save",
                       ![j].audio_segments = <<>>,
                       ![j].actual_seed = 0,
                       ![j].total_chunks = 0,
                       ![j].i = 0,
                       ![j].wav = MergedLen(loc[j].audio_segments, loc[j].sr)]
          /\ progress' = [progress EXCEPT ![j] = Frac(9, 10)]
       \/ /\ Len(loc[j].audio_segments) > 1
          /\ Raise(j, Exc("merge", "RuntimeError", "err"))
          /\ UNCHANGED progress
       \/ /\ Len(loc[j].audio_segments) = 0
          /\ Raise(j, Exc("merge", "IndexError", "list index out of range"))
          /\ UNCHANGED progress
    /\ resp' = NoResp
    /\ UNCHANGED <<jobs, id, status, params, result_path, error, created_at, files, uploads, cacheVars, history, torch_seed, now>>

\* os.path.join(state.outputs_dir, f"job_{job.id}_{timestamp}.wav")
OutputPath(job_id, timestamp) == <<job_id, timestamp>>

\* lines 148-156: filter, then ta.save(filepath, wav, tts.sr); either can
\* raise
Save(j) ==
    /\ loc[j].pc = "save"
    /\ \/ /\ loc' = [loc EXCEPT
                       ![j] = [Frame0 EXCEPT
                                 !.pc = "set_result",
                                 !.filepath = OutputPath(id[j], now)]]
          /\ files' = files \cup {OutputPath(id[j], now)}
       \/ /\ Raise(j, Exc("save", "RuntimeError", "err"))
          /\ UNCHANGED files
    /\ resp' = NoResp
    /\ UNCHANGED <<jobs, id, status, params, result_path, error, progress,
                   created_at, uploads, cacheVars, history, torch_seed, now>>

\* mutant: the status is set before the result path
SetResultAfterStatus(j) ==
    /\ loc[j].pc = "set_result"
    /\ status' = [status EXCEPT ![j] = "completed"]
    /\ loc' = [loc EXCEPT ![j].pc = "set_completed"]
    /\ resp' = NoResp
    /\ UNCHANGED <<jobs, id, params, result_path, error, progress, created_at,
                   files, uploads, cacheVars, history, torch_seed, now>>

\* line 158
SetResult(j) ==
    /\ loc[j].pc = "set_result"
    /\ result_path' = [result_path EXCEPT ![j] = loc[j].filepath]
    /\ Goto(j, "set_completed")
    /\ resp' = NoResp
    /\ UNCHANGED <<jobs, id, status, params, error, progress, created_at, files, uploads, cacheVars, history, torch_seed, now>>

\* line 159
SetCompleted(j) ==
    /\ loc[j].pc = "set_completed"
    /\ status' = [status EXCEPT ![j] = "completed"]
    /\ Goto(j, "set_progress")
    /\ resp' = NoResp
    /\ UNCHANGED <<jobs, id, params, result_path, error, progress, created_at, files, uploads, cacheVars, history, torch_seed, now>>

\* lines 160-163 (completed_at, which nothing reads, is not modelled)
SetProgressDone(j) ==
    /\ loc[j].pc = "set_progress"
    /\ progress' = [progress EXCEPT ![j] = Frac(1, 1)]
    /\ Goto(j, "rm_ref")
    /\ resp' = NoResp
    /\ UNCHANGED <<jobs, id, status, params, result_path, error, created_at, files, uploads, cacheVars, history, torch_seed, now>>

\* mutant: os.remove outside a try, so that a failed removal raises
RemoveRefUnguarded(j) ==
    /\ loc[j].pc = "rm_ref"
    /\ \/ /\ uploads' = uploads \ {params[j].ref_audio_path}
          /\ Goto(j, "cleanup")
       \/ /\ Raise(j, Exc("rm_ref", "OSError", "err"))
          /\ UNCHANGED uploads
    /\ resp' = NoResp
    /\ UNCHANGED <<jobs, id, status, params, result_path, error, progress,
                   created_at, files, cacheVars, history, torch_seed, now>>

\* lines 166-170: the removal cannot raise (bare except)
RemoveRef(j) ==
    /\ loc[j].pc = "rm_ref"
    /\ uploads' = uploads \ {params[j].ref_audio_path}
    /\ Goto(j, "cleanup")
    /\ resp' = NoResp
    /\ UNCHANGED <<jobs, id, status, params, result_path, error, progress,
                   created_at, files, cacheVars, history, torch_seed, now>>

\* line 173, after which process_tts_job returns
Cleanup(j) ==
    /\ loc[j].pc = "cleanup"
    /\ cleanup_old_jobs
    /\ loc' = [loc EXCEPT ![j] = FrameDone]
    /\ resp' = NoResp
    /\ UNCHANGED <<id, status, params, result_path, error, progress, created_at, uploads, cacheVars, history, torch_seed, now>>

\* mutant: the handler records the message and leaves the status
ExceptMessageOnly(j) ==
    /\ loc[j].pc = "except"
    /\ error' = [error EXCEPT ![j] = loc[j].e.msg]
    /\ loc' = [loc EXCEPT ![j].pc = "set_error"]
    /\ resp' = NoResp
    /\ UNCHANGED <<jobs, id, status, params, result_path, progress, created_at, files, uploads, cacheVars, history, torch_seed, now>>

\* lines 175-177
Except(j) ==
    /\ loc[j].pc = "except"
    /\ status' = [status EXCEPT ![j] = "failed"]
    /\ loc' = [loc EXCEPT ![j].pc = "set_error"]
    /\ resp' = NoResp
    /\ UNCHANGED <<jobs, id, params, result_path, error, progress, created_at, files, uploads, cacheVars, history, torch_seed, now>>

\* line 178, after which process_tts_job returns
SetError(j) ==
    /\ loc[j].pc = "set_error"
    /\ error' = [error EXCEPT ![j] = loc[j].e.msg]
    /\ loc' = [loc EXCEPT ![j] = FrameDone]
    /\ resp' = NoResp
    /\ UNCHANGED <<jobs, id, status, params, result_path, progress, created_at, files, uploads, cacheVars, history, torch_seed, now>>

process_tts_job(j) ==
    \/ Start(j)
    \/ Load(j)
    \/ Plan(j)
    \/ ChunkBegin(j)
    \/ SetSeed(j)
    \/ Generate(j)
    \/ AfterLoop(j)
    \/ Merge(j)
    \/ Save(j)
    \/ SetResult(j)
    \/ SetCompleted(j)
    \/ SetProgressDone(j)
    \/ RemoveRef(j)
    \/ Cleanup(j)
    \/ Except(j)
    \/ SetError(j)

(***************************************************************************)
(* GET /jobs/{job_id} and GET /jobs/{job_id}/download                      *)
(***************************************************************************)
api_job_status(job_id) ==
    /\ resp' =
         IF job_id \notin DOMAIN jobs
         THEN [op |-> "status", code |-> 404, id |-> job_id]
         ELSE LET job == jobs[job_id] IN
              [op |-> "status", code |-> 200, id |-> id[job],
               status |-> status[job],
               download_url |-> status[job] = "completed",
               error |-> IF status[job] = "failed" THEN error[job] ELSE None]
    /\ UNCHANGED <<jobVars, cacheVars, history, now>>

\* mutant: the status of the job is not looked at
api_job_download_any_status(job_id) ==
    /\ resp' =
         IF job_id \notin DOMAIN jobs
         THEN [op |-> "download", code |-> 404, id |-> job_id]
         ELSE LET job == jobs[job_id] IN
              IF result_path[job] = NoPath \/ result_path[job] \notin files
              THEN [op |-> "download", code |-> 404, id |-> job_id]
              ELSE [op |-> "download", code |-> 200, id |-> job_id,
                    path |-> result_path[job]]
    /\ UNCHANGED <<jobVars, cacheVars, history, now>>

api_job_download(job_id) ==
    /\ resp' =
         IF job_id \notin DOMAIN jobs
         THEN [op |-> "download", code |-> 404, id |-> job_id]
         ELSE LET job == jobs[job_id] IN
              IF status[job] # "completed"
              THEN [op |-> "download", code |-> 400, id |-> job_id]
              ELSE IF result_path[job] = NoPath \/ result_path[job] \notin files
                   THEN [op |-> "download", code |-> 404, id |-> job_id]
                   ELSE [op |-> "download", code |-> 200, id |-> job_id,
                         path |-> result_path[job]]
    /\ UNCHANGED <<jobVars, cacheVars, history, now>>

(***************************************************************************)
(* The wall clock.                                                         *)
(***************************************************************************)
TickStep == JobMaxAge + 1

Tick ==
    /\ now < MaxTicks * TickStep
    /\ now' = now + TickStep
    /\ resp' = NoResp
    /\ UNCHANGED <<jobVars, cacheVars, history>>

(***************************************************************************)
(* The job ids a uuid4 draw is modelled to return: ids are interchangeable, *)
(* so a draw is an id some job already has (a collision) or the first id   *)
(* no job has had.                                                         *)
(***************************************************************************)
UsedIds == {id[j] : j \in Objs}

DrawnIds ==
    UsedIds \cup
    {IdSeq[k] : k \in {m \in DOMAIN IdSeq :
                         /\ IdSeq[m] \notin UsedIds
                         /\ \A n \in 1..(m - 1) : IdSeq[n] \in UsedIds}}

\* a request the validation of api.py:286-288 accepts
Submit ==
    \E text \in Texts, ref_audio \in {TRUE}, job_id \in DrawnIds :
      /\ strip(text) # <<>>
      /\ api_generate_async(text, 0, ref_audio, job_id)

\* a request the validation rejects (before any id is drawn)
Reject ==
    \E text \in Texts, ref_audio \in BOOLEAN, job_id \in {IdSeq[1]} :
      /\ strip(text) = <<>>
      /\ api_generate_async(text, 0, ref_audio, job_id)

\* an accepted request that uploads no reference audio
SubmitPlain ==
    \E text \in Texts, job_id \in DrawnIds :
      /\ strip(text) # <<>>
      /\ api_generate_async(text, 0, FALSE, job_id)

Worker == \E j \in Objs : process_tts_job(j)

Status == \E job_id \in DrawnIds : api_job_status(job_id)

Download == \E job_id \in DrawnIds : api_job_download(job_id)

(***************************************************************************)
(* Spec: submissions with reference audio (accepted and rejected), the     *)
(* background tasks and the clock.  SpecApi: the job system under requests *)
(* without reference audio, with the download endpoint, whose response is  *)
(* recorded in resp.                                                       *)
(***************************************************************************)
Next ==
    \/ Submit
    \/ Reject
    \/ Worker
    \/ Tick

Spec == Init /\ [][Next]_vars

NextApi ==
    \/ SubmitPlain
    \/ Worker
    \/ Tick
    \/ Download

SpecApi == Init /\ [][NextApi]_vars

\* a request that gives a seed, or asks for a random one
SubmitSeeded ==
    \E seed \in Seeds, job_id \in DrawnIds :
      api_generate_async(<<"a">>, seed, FALSE, job_id)

\* SpecSeed: seeded requests and the background tasks, which the thread
\* pool runs side by side
NextSeed ==
    \/ SubmitSeeded
    \/ Worker

SpecSeed == Init /\ [][NextSeed]_vars

(***************************************************************************)
(* The thread running _cleanup_loop in frame t.                            *)
(***************************************************************************)
\* line 80
LoopHead(t) ==
    /\ sweep[t].pc = "while"
    /\ sweep' = [sweep EXCEPT ![t] = IF running
                                     THEN [NoThread EXCEPT !.pc = "sleep"]
                                     ELSE NoThread]
    /\ UNCHANGED <<models, last_access, timeout_seconds, running>>

\* line 81: the clock is advanced by Tick alone
Sleep(t) ==
    /\ sweep[t].pc = "sleep"
    /\ sweep' = [sweep EXCEPT ![t].pc = "check"]
    /\ UNCHANGED <<models, last_access, timeout_seconds, running>>

\* lines 91-95
CheckTimeout(t) ==
    /\ sweep[t].pc = "check"
    /\ sweep' = [sweep EXCEPT
                   ![t] = IF timeout_seconds <= 0
                          THEN [NoThread EXCEPT !.pc = "empty"]
                          ELSE [NoThread EXCEPT !.pc = "scan",
                                                !.current_time = now]]
    /\ UNCHANGED <<models, last_access, timeout_seconds, running>>

\* lines 97-101
Scan(t) ==
    /\ sweep[t].pc = "scan"
    /\ sweep' = [sweep EXCEPT
                   ![t].pc = "clear",
                   ![t].keys_to_remove =
                      {k \in DOMAIN last_access :
                         sweep[t].current_time - last_access[k] > timeout_seconds}]
    /\ UNCHANGED <<models, last_access, timeout_seconds, running>>

\* lines 103-105: one clear(key) per step
ClearIdle(t) ==
    /\ sweep[t].pc = "clear"
    /\ IF sweep[t].keys_to_remove = {}
       THEN /\ sweep' = [sweep EXCEPT ![t] = [NoThread EXCEPT !.pc = "empty"]]
            /\ UNCHANGED <<models, last_access>>
       ELSE \E key \in sweep[t].keys_to_remove :
              /\ Cleared(key)
              /\ sweep' = [sweep EXCEPT ![t].keys_to_remove = @ \ {key}]
    /\ UNCHANGED <<timeout_seconds, running>>

\* line 85
CheckEmpty(t) ==
    /\ sweep[t].pc = "empty"
    /\ sweep' = [sweep EXCEPT ![t].pc = IF DOMAIN models = {}
                                        THEN "stop" ELSE "while"]
    /\ UNCHANGED <<models, last_access, timeout_seconds, running>>

\* lines 86-87
Stop(t) ==
    /\ sweep[t].pc = "stop"
    /\ running' = FALSE
    /\ sweep' = [sweep EXCEPT ![t] = NoThread]
    /\ UNCHANGED <<models, last_access, timeout_seconds>>

_cleanup_loop(t) ==
    /\ \/ LoopHead(t)
       \/ Sleep(t)
       \/ CheckTimeout(t)
       \/ Scan(t)
       \/ ClearIdle(t)
       \/ CheckEmpty(t)
       \/ Stop(t)
    /\ UNCHANGED <<loads, jobVars, history, now, resp>>

CacheTickStep == DefaultTimeout \div 2

CacheTick ==
    /\ now < MaxCacheTicks * CacheTickStep
    /\ now' = now + CacheTickStep
    /\ UNCHANGED <<jobVars, cacheVars, history, resp>>

(***************************************************************************)
(* SpecCache: the cache under its callers, its sweep threads and the       *)
(* clock.  A started thread is scheduled again and again (weak fairness).  *)
(***************************************************************************)
InitCache == JobInit /\ \E t \in Timeouts : CacheInit(t)

CacheGet == \E key \in Keys : get(key)

CacheSet == \E key \in Keys, model \in Instances : set(key, model)

CacheClear == \E key \in Keys \cup {None, ""} : clear(key)

CacheSetTimeout == \E value \in Timeouts : set_timeout_seconds(value)

SweepThread == \E t \in 1..MaxThreads : _cleanup_loop(t)

\* api.py:230-238
api_unload ==
    /\ Cleared(None)
    /\ resp' = [op |-> "unload", code |-> 200, id |-> None]
    /\ UNCHANGED <<timeout_seconds, running, sweep, loads, jobVars, history, now>>

Unload == api_unload

NextCache ==
    \/ CacheGet
    \/ CacheSet
    \/ CacheClear
    \/ CacheSetTimeout
    \/ SweepThread
    \/ Unload
    \/ CacheTick

SpecCache ==
    /\ InitCache
    /\ [][NextCache]_vars
    /\ \A t \in 1..MaxThreads : WF_vars(_cleanup_loop(t))

(***************************************************************************)
(* SpecUse: one job that takes the model from the cache and generates with *)
(* it, while the sweep thread runs, POST /unload is served, the job is     *)
(* polled, and time passes.                                                *)
(***************************************************************************)
SubmitFirst == status = <<>> /\ SubmitPlain

NextUse ==
    \/ SubmitFirst
    \/ Worker
    \/ SweepThread
    \/ Unload
    \/ Status
    \/ CacheTick

SpecUse == Init /\ [][NextUse]_vars

\* the thread pool runs every background task it was given to its end
TaskRuns(j) == j \in Objs /\ process_tts_job(j)

SpecUseFair == SpecUse /\ \A j \in 1..MaxJobs : WF_vars(TaskRuns(j))

\* the job service of Spec where every background task runs to its end
\* (the thread pool runs each scheduled task) and the clock advances
SpecReclaim ==
    /\ Spec
    /\ WF_vars(Tick)
    /\ \A j \in 1..MaxJobs : WF_vars(TaskRuns(j))

(***************************************************************************)
(* The Gradio handler generate_speech (src/ui.py), as one step: it runs in *)
(* the caller's thread and has no state of its own between its statements. *)
(* SpecHistory: one API job and the handler, with the clock.               *)
(***************************************************************************)
\* os.path.join(state.outputs_dir, f"tts_{timestamp}.wav")
UiPath(timestamp) == <<"tts", timestamp>>

\* state.py:101-103 and database.py:132-153: the row is inserted, or the
\* insert fails and add_entry returns False
save_to_history(entry) ==
    \/ history' = Append(history, entry)
    \/ UNCHANGED history

\* ui.py:63: tts = state.tts_model, when the load succeeds
UiModel ==
    IF has("tts")
    THEN /\ Touched("tts")
         /\ UNCHANGED <<models, running, sweep, loads>>
    ELSE /\ loads < MaxLoads
         /\ loads' = loads + 1
         /\ Stored("tts", loads + 1)

\* ui.py:51-143
generate_speech(text, seed) ==
    /\ Len(history) < MaxHistory
    /\ IF strip(text) = <<>>
       THEN /\ resp' = [op |-> "generate_speech", code |-> 400, id |-> None]
            /\ UNCHANGED <<cacheVars, files, history, torch_seed>>
       ELSE \/ /\ ~has("tts")
               /\ loads < MaxLoads
               /\ loads' = loads + 1
               /\ torch_seed' \in ActualSeeds(seed)
               /\ resp' = [op |-> "generate_speech", code |-> 500, id |-> None]
               /\ UNCHANGED <<models, last_access, running, sweep, files, history>>
            \/ /\ UiModel
               /\ torch_seed' = NoSeed
               /\ resp' = [op |-> "generate_speech", code |-> 500, id |-> None]
               /\ UNCHANGED <<files, history>>
            \/ /\ UiModel
               /\ torch_seed' = NoSeed
               /\ files' = files \cup {UiPath(now)}
               /\ save_to_history([filename |-> UiPath(now)])
               /\ resp' = [op |-> "generate_speech", code |-> 200, id |-> None]
    /\ UNCHANGED <<jobs, id, status, params, result_path, error, progress,
                   created_at, loc, uploads, timeout_seconds, now>>

Ui == \E text \in Texts : generate_speech(text, 0)

NextHistory ==
    \/ SubmitFirst
    \/ Worker
    \/ Ui
    \/ Tick

SpecHistory == Init /\ [][NextHistory]_vars

(***************************************************************************)
(* split_into_sentences (src/core/utils.py), on texts over a small         *)
(* alphabet: a letter, a sentence end, a comma and a blank.                *)
(***************************************************************************)
SplitAlphabet == {"a", ".", ",", " "}
SplitTexts == UNION {[1..n -> SplitAlphabet] : n \in 0..MaxTextLen}
SentenceEnds == {".", "!", "?"}
ClauseEnds == {",", ";", ":"}

\* the start of the first match of (?<=[P])\s+ in s, or 0
FirstCut(s, P) ==
    LET cuts == {i \in 2..Len(s) : s[i - 1] \in P /\ s[i] \in Whitespace}
    IN IF cuts = {} THEN 0 ELSE CHOOSE i \in cuts : \A k \in cuts : i <= k

\* the end of the run of whitespace that starts at i
RunEnd(s, i) ==
    CHOOSE k \in i..Len(s) :
      /\ \A m \in i..k : s[m] \in Whitespace
      /\ k = Len(s) \/ s[k + 1] \notin Whitespace

\* re.split(r'(?<=[P])\s+', s)
RECURSIVE re_split(_, _)
re_split(s, P) ==
    LET cut == FirstCut(s, P) IN
    IF cut = 0
    THEN <<s>>
    ELSE <<SubSeq(s, 1, cut - 1)>>
           \o re_split(SubSeq(s, RunEnd(s, cut) + 1, Len(s)), P)

\* mutant: the joining blank is not counted
AddPieceNoSpace(st, piece, max_chars) ==
    IF Len(st.current_chunk) + Len(piece) <= max_chars
    THEN [st EXCEPT !.current_chunk = strip(@ \o <<" ">> \o piece)]
    ELSE [chunks |-> IF st.current_chunk # <<>>
                     THEN Append(st.chunks, st.current_chunk) ELSE st.chunks,
          current_chunk |-> piece]

\* lines 30-35 and 37-42: the piece joins the current chunk or starts the
\* next one
AddPiece(st, piece, max_chars) ==
    IF Len(st.current_chunk) + Len(piece) + 1 <= max_chars
    THEN [st EXCEPT !.current_chunk = strip(@ \o <<" ">> \o piece)]
    ELSE [chunks |-> IF st.current_chunk # <<>>
                     THEN Append(st.chunks, st.current_chunk) ELSE st.chunks,
          current_chunk |-> piece]

\* lines 29-35: the loop over sub_parts
RECURSIVE AddParts(_, _, _)
AddParts(st, sub_parts, max_chars) ==
    IF sub_parts = <<>>
    THEN st
    ELSE AddParts(AddPiece(st, Head(sub_parts), max_chars), Tail(sub_parts),
                  max_chars)

\* lines 21-42: one iteration of the loop over sentences
AddSentence(st, raw, max_chars) ==
    LET sentence == strip(raw) IN
    IF sentence = <<>>
    THEN st
    ELSE IF Len(sentence) > max_chars
         THEN AddParts(st, re_split(sentence, ClauseEnds), max_chars)
         ELSE AddPiece(st, sentence, max_chars)

RECURSIVE AddSentences(_, _, _)
AddSentences(st, sentences, max_chars) ==
    IF sentences = <<>>
    THEN st
    ELSE AddSentences(AddSentence(st, Head(sentences), max_chars),
                      Tail(sentences), max_chars)

\* mutant: the chunk being built when the loop ends is not emitted
split_into_sentences_no_tail(text, max_chars) ==
    LET st == AddSentences([chunks |-> <<>>, current_chunk |-> <<>>],
                           re_split(strip(text), SentenceEnds), max_chars)
    IN IF st.chunks # <<>> THEN st.chunks ELSE <<text>>

\* lines 9-46
split_into_sentences(text, max_chars) ==
    LET st == AddSentences([chunks |-> <<>>, current_chunk |-> <<>>],
                           re_split(strip(text), SentenceEnds), max_chars)
        chunks == IF st.current_chunk # <<>>
                  THEN Append(st.chunks, st.current_chunk) ELSE st.chunks
    IN IF chunks # <<>> THEN chunks ELSE <<text>>

\* the calls of split_into_sentences about to be made
SplitCalls ==
    {[op |-> "call split_into_sentences", code |-> 0, id |-> None,
      text |-> text, max_chars |-> max_chars] :
       text \in SplitTexts, max_chars \in 1..MaxL}

\* the call returns; resp holds its arguments and its result
SplitCall ==
    /\ resp.op = "call split_into_sentences"
    /\ resp' = [op |-> "split_into_sentences", code |-> 0, id |-> None,
                text |-> resp.text, max_chars |-> resp.max_chars,
                chunks |-> split_into_sentences(resp.text, resp.max_chars)]
    /\ UNCHANGED <<jobVars, cacheVars, history, now>>

\* the segment lengths around fade_samples, and the sample rates
SegLens == {0, 7, 480, 481, 720, 721}
MergeRates == {16000, 24000}
MergeInputs ==
    UNION {[1..n -> {Tensor("gen", m) : m \in SegLens}] : n \in 1..MaxSegs}

\* the calls of merge_audio_with_crossfade about to be made
MergeCalls ==
    {[op |-> "call merge_audio_with_crossfade", code |-> 0, id |-> None,
      segments |-> segments, sample_rate |-> sample_rate] :
       segments \in MergeInputs, sample_rate \in MergeRates}

\* the call returns; resp holds its arguments and its result
MergeCall ==
    /\ resp.op = "call merge_audio_with_crossfade"
    /\ resp' = [op |-> "merge_audio_with_crossfade", code |-> 0, id |-> None,
                segments |-> resp.segments, sample_rate |-> resp.sample_rate,
                out |-> merge_audio_with_crossfade(resp.segments,
                                                   resp.sample_rate)]
    /\ UNCHANGED <<jobVars, cacheVars, history, now>>

InitUtils ==
    /\ JobFields
    /\ CacheInit(DefaultTimeout)
    /\ resp \in SplitCalls \cup MergeCalls

NextUtils ==
    \/ SplitCall
    \/ MergeCall

SpecUtils == InitUtils /\ [][NextUtils]_vars

(***************************************************************************)
(* Claims about the job lifecycle.                                         *)
(***************************************************************************)
Registered(j) == \E k \in DOMAIN jobs : jobs[k] = j

StatusOrder ==
    {<<"pending", "processing">>, <<"processing", "completed">>,
     <<"processing", "failed">>}

\* C1: a job's status starts Pending and only ever changes Pending ->
\* Processing -> Completed or Pending -> Processing -> Failed; no step of any
\* thread changes a status that is Completed or Failed.
C1_StatusTransitions ==
    [][/\ \A j \in Objs :
            status'[j] = status[j] \/ <<status[j], status'[j]>> \in StatusOrder
       /\ \A j \in DOMAIN status' \ Objs : status'[j] = "pending"]_vars

\* a Completed job whose task has returned after its own cleanup_old_jobs
\* reclaimed it
C1_Witness ==
    \E j \in Objs :
      status[j] = "completed" /\ loc[j].pc = "done" /\ ~Registered(j)

C2_Range ==
    \A j \in Objs :
      /\ FracLeq(Frac(0, 1), progress[j])
      /\ FracLeq(progress[j], Frac(1, 1))
      /\ loc[j].pc \in {"chunk", "seed", "generate", "assemble"}
           => FracLeq(progress[j], Frac(8, 10))
      /\ progress[j] = Frac(1, 1)
           => status[j] = "completed" /\ result_path[j] # NoPath

\* C2: the progress values written for a job never decrease, lie in [0, 1],
\* stay within [0, 0.8] while chunks are generated, and are 1 only once the
\* output is saved and recorded; a failing job keeps its progress.
C2_ProgressMonotone ==
    /\ []C2_Range
    /\ [][\A j \in Objs : FracLeq(progress[j], progress'[j])]_vars

\* a two-chunk job that failed in its second chunk keeps progress 0.4
C2_Witness ==
    \E j \in Objs :
      status[j] = "failed" /\ loc[j].pc = "done" /\ progress[j] = Frac(4, 10)

\* C3: whenever a job's status is Completed, its result_path is set.
C3_CompletedHasResult ==
    \A j \in Objs : status[j] = "completed" => result_path[j] # NoPath

\* the state right after line 159, before progress is set to 1
C3_Witness ==
    \E j \in Objs :
      /\ status[j] = "completed"
      /\ loc[j].pc = "set_progress"
      /\ result_path[j] \in files

\* C4: whenever a job's status is Failed, its error is a non-empty message.
C4_FailedHasError ==
    \A j \in Objs : status[j] = "failed" => error[j] \notin {None, ""}

C6_NoGenerateFailurePropagates ==
    [][\A j \in Objs : loc[j].pc = "generate" => loc'[j].pc # "except"]_vars

\* C6, amended: a RuntimeError of tts.generate never leaves the retry loop;
\* an exception that reaches the failing handler from the loop is one of
\* another type raised by tts.generate.
C6_RuntimeErrorAbsorbed ==
    [][\A j \in Objs :
         loc[j].pc = "generate" /\ loc'[j].pc = "except"
           => loc'[j].e.at = "generate" /\ loc'[j].e.kind # "RuntimeError"]_vars

\* a two-chunk job whose first chunk exhausted its attempts and whose second
\* chunk is at its second attempt, still Processing
C6_Witness ==
    \E j \in Objs :
      /\ loc[j].pc = "generate"
      /\ loc[j].total_chunks = 2
      /\ loc[j].i = 1
      /\ loc[j].attempt = 1
      /\ loc[j].audio_segments[1].src = "zeros"
      /\ status[j] = "processing"

\* C7: a submission whose text is empty or whitespace is answered with the
\* validation error and changes nothing: no job object, no registry entry,
\* no scheduled task, no uploaded file; so no job ever holds an empty text.
C7_BlankRejected ==
    /\ [](\A j \in Objs : params[j].text # <<>>)
    /\ [][resp'.op = "submit" /\ resp'.code = 400 => UNCHANGED jobVars]_vars

\* a rejection answered while a job exists
C7_Witness == resp.op = "submit" /\ resp.code = 400 /\ Objs # {}

\* C8: the id drawn at submission is never a key of the registry, so no
\* registry entry is ever replaced by another job.
C8_UniqueIds ==
    [][\A k \in DOMAIN jobs \cap DOMAIN jobs' : jobs'[k] = jobs[k]]_vars

Times == {n * CacheTickStep : n \in 0..(MaxCacheTicks + 1)}

\* C10: with timeout > 0, an entry idle for longer than the timeout that is
\* not accessed again is eventually removed by a sweep (has(key) becomes
\* false), whatever set, clear and the sweep thread's start and stop do.
C10_IdleEvicted ==
    \A key \in Keys, t \in Times :
      (/\ has(key)
       /\ last_access[key] = t
       /\ timeout_seconds > 0
       /\ now - t > timeout_seconds)
        ~> (~has(key) \/ last_access[key] # t \/ timeout_seconds <= 0)

\* a step of a sweep thread (a caller's clear leaves the thread frames alone)
\* that takes an entry out of the cache
SweepRemoves ==
    /\ sweep' # sweep
    /\ \E key \in DOMAIN models : key \notin DOMAIN models'

\* C11: while the idle timeout is <= 0 the sweep removes no entry, however
\* long the entry has been idle.
C11_DisabledNeverEvicts ==
    [][timeout_seconds <= 0 => ~SweepRemoves]_vars

\* the model objects something still refers to: the cache, or a local of a
\* running job
LiveInstances ==
    ({models[key] : key \in DOMAIN models}
       \cup {loc[j].model : j \in Objs} \cup {loc[j].tts : j \in Objs})
    \ {NoModel}

\* C12: at most one model instance is alive at any time: jobs that read
\* state.tts_model concurrently while the cache has no "tts" entry load the
\* model once and all receive that one instance.
C12_OneInstance == Cardinality(LiveInstances) <= 1

\* job j took a model from the cache and is in its chunk loop
Generating(j) == loc[j].pc \in {"chunk", "seed", "generate"} /\ loc[j].tts # NoModel

\* C13: the idle sweep does not remove the "tts" entry while a job that
\* obtained the instance from the cache is still generating chunks with it.
C13_NoEvictionMidUse ==
    [][(\E j \in Objs : Generating(j))
         => ~(sweep' # sweep /\ has("tts") /\ "tts" \notin DOMAIN models')]_vars

\* f without the entry of key
Without(f, key) == [k \in DOMAIN f \ {key} |-> f[k]]

\* C14: unload (clear with no key) leaves no entry and no timestamp;
\* clear(key) with a non-empty key removes that key's instance and timestamp
\* and leaves every other entry and timestamp as it was; clearing an absent
\* key changes nothing.
C14_ClearFrame ==
    [][/\ (Unload \/ clear(None))
            => DOMAIN models' = {} /\ DOMAIN last_access' = {}
       /\ \A key \in Keys :
            clear(key) => /\ models' = Without(models, key)
                          /\ last_access' = Without(last_access, key)
                          /\ ~has(key) => UNCHANGED <<models, last_access>>]_vars

\* unload has just answered, on a cache that had held entries
C14_Witness ==
    /\ resp.op = "unload"
    /\ running
    /\ DOMAIN models = {}
    /\ DOMAIN last_access = {}

\* C15: every submitted job whose task runs ends Completed or Failed with
\* process_tts_job returned, and an exception raised at any step leaves the
\* job Failed with the exception's message as its error.
C15_JobTerminates ==
    /\ \A j \in 1..MaxJobs :
         (j \in Objs) ~> (/\ j \in Objs
                          /\ loc[j].pc = "done"
                          /\ status[j] \in {"completed", "failed"})
    /\ \A j \in 1..MaxJobs :
         (j \in Objs /\ loc[j].pc = "except")
           ~> (/\ j \in Objs
               /\ loc[j].pc = "done"
               /\ status[j] = "failed"
               /\ error[j] # None)
    /\ [][\A j \in Objs :
            (loc[j].e # NoExc /\ loc'[j].pc = "done")
              => status'[j] = "failed" /\ error'[j] = loc[j].e.msg]_vars

\* a job whose save raised has ended Failed with that message
C15_Witness ==
    \E j \in Objs :
      /\ loc[j].pc = "done"
      /\ status[j] = "failed"
      /\ error[j] = "err"

\* the registry keys of the jobs older than the retention threshold
Expired == {k \in DOMAIN jobs : now - created_at[jobs[k]] > JobMaxAge}

C17_CompletedHasHistory ==
    \A j \in Objs :
      status[j] = "completed"
        => \E n \in DOMAIN history : history[n].filename = result_path[j]

(***************************************************************************)
(* Claims about the utilities.                                             *)
(***************************************************************************)
\* c has no sentence end, comma, semicolon or colon followed by whitespace
Unsplittable(c) ==
    \A i \in 2..Len(c) :
      ~(c[i - 1] \in SentenceEnds \cup ClauseEnds /\ c[i] \in Whitespace)

\* C18: every chunk split_into_sentences returns is at most max_chars long,
\* except a chunk that is one unsplittable unit longer than max_chars.
C18_ChunkLength ==
    resp.op = "split_into_sentences"
      => \A n \in DOMAIN resp.chunks :
           Len(resp.chunks[n]) <= resp.max_chars \/ Unsplittable(resp.chunks[n])

\* a text that was split, one of whose chunks is a unit longer than max_chars
C18_Witness ==
    /\ resp.op = "split_into_sentences"
    /\ Len(resp.chunks) >= 2
    /\ \E n \in DOMAIN resp.chunks : Len(resp.chunks[n]) > resp.max_chars
    /\ \E n \in DOMAIN resp.chunks : Len(resp.chunks[n]) <= resp.max_chars

\* s without its whitespace
NoWs(s) == SelectSeq(s, LAMBDA c : c \notin Whitespace)

RECURSIVE Concat(_)
Concat(ss) == IF ss = <<>> THEN <<>> ELSE Head(ss) \o Concat(Tail(ss))

\* C19: split_into_sentences returns at least one chunk; the chunks in order,
\* whitespace ignored, are the text, whitespace ignored; an empty or
\* whitespace-only text comes back as the one chunk holding the text itself.
C19_NothingDropped ==
    resp.op = "split_into_sentences"
      => /\ resp.chunks # <<>>
         /\ NoWs(Concat(resp.chunks)) = NoWs(resp.text)
         /\ strip(resp.text) = <<>> => resp.chunks = <<resp.text>>

\* a text that was split in chunks, its separating whitespace gone
C19_Witness ==
    /\ resp.op = "split_into_sentences"
    /\ Len(resp.chunks) >= 2
    /\ Len(Concat(resp.chunks)) < Len(resp.text)

\* C20: for N >= 1 segments merge_audio_with_crossfade returns a buffer as
\* long as the segments together plus N-1 silences of
\* int(sample_rate * 150 / 1000) samples, the segments in input order; one
\* segment alone is returned as it is, without fade and without silence.
C20_MergedLength ==
    resp.op = "merge_audio_with_crossfade"
      => LET segments == resp.segments
             N == Len(segments)
             fromInput == SelectSeq(resp.out, LAMBDA p : p.k # 0)
         IN /\ PiecesLen(resp.out)
                 = SumLen(segments) + (N - 1) * ((resp.sample_rate * 150) \div 1000)
            /\ Len(fromInput) = N
            /\ \A i \in 1..N : fromInput[i].k = i /\ fromInput[i].seg = segments[i]
            /\ N = 1 => resp.out = <<Piece(1, segments[1], FALSE, FALSE)>>

\* three segments were merged, one long enough to be faded and one not
C20_Witness ==
    /\ resp.op = "merge_audio_with_crossfade"
    /\ Len(resp.segments) = 3
    /\ \E p \in {resp.out[i] : i \in DOMAIN resp.out} : p.fade_out /\ p.fade_in
    /\ \E p \in {resp.out[i] : i \in DOMAIN resp.out} : p.k # 0 /\ ~p.fade_out

\* C22: the sweep removes an entry only if, at the moment of the removal, the
\* entry has been idle for longer than the timeout; an entry refreshed by
\* get or set after the sweep selected it is not removed.
C22_NoReadEvictionRace ==
    [][\A key \in DOMAIN models :
         (sweep' # sweep /\ key \notin DOMAIN models')
           => now - last_access[key] > timeout_seconds]_vars

\* C23: state.tts_model never returns None: whatever unload or the sweep do
\* between its has, set and get, the caller receives a model.
C23_NeverNone ==
    [][\A j \in Objs :
         (loc[j].pc = "tts_get" /\ loc'[j].pc = "plan")
           => loc'[j].tts # NoModel]_vars

\* a sweep thread is inside _cleanup_loop
LiveLoop == \E t \in 1..MaxThreads : sweep[t].pc # "dead"

\* C24: whenever the cache holds an entry a sweep is active: _running is true
\* only with a live loop, and it is never false while entries remain, also
\* when set inserts an entry while the sweep thread is stopping.
C24_SweepActive ==
    /\ running => LiveLoop
    /\ DOMAIN models # {} => running /\ LiveLoop

\* the frame of job j holds the loader's exception, or the handler has
\* recorded it
LoadFailed(j) ==
    \/ loc[j].e.kind = "ModelLoadError"
    \/ loc[j].pc = "done" /\ error[j] = "TTS model yuklenemedi"

\* C25: when the loader raises, the cache is left as it was (instances,
\* timestamps, _running and the sweep threads), the job goes to the handler
\* and ends Failed with the load error, it never loads again, and a job that
\* finds no entry afterwards calls the loader again.
C25_LoadFailure ==
    [][\A j \in Objs :
         /\ (loc[j].pc = "tts_load" /\ loc'[j].pc = "except")
              => /\ loc'[j].e.kind = "ModelLoadError"
                 /\ <<models, last_access, running, sweep>>'
                      = <<models, last_access, running, sweep>>
         /\ (LoadFailed(j) /\ loc'[j] # loc[j])
              => /\ LoadFailed(j)'
                 /\ loc'[j].pc \in {"set_error", "done"}
                 /\ status'[j] = "failed"
                 /\ loc'[j].pc = "done" => error'[j] = "TTS model yuklenemedi"
         /\ (loc[j].pc = "load" /\ ~has("tts") /\ loc'[j] # loc[j])
              => loc'[j].pc = "tts_load"]_vars

\* one job has failed on the loader and ended, the cache is still empty, and
\* a later job has called the loader again and holds the new model
C25_Witness ==
    \E j, k \in Objs :
      /\ j # k
      /\ loc[j].pc = "done" /\ status[j] = "failed"
      /\ error[j] = "TTS model yuklenemedi"
      /\ loc[k].pc = "tts_set" /\ loc[k].model = loads
      /\ loads = 2
      /\ DOMAIN models = {} /\ DOMAIN last_access = {} /\ ~running

\* C26: a job older than the retention window is eventually removed from the
\* registry, whatever its status and whether or not another job completes
\* afterwards.
C26_OldJobsReclaimed ==
    \A j \in 1..MaxJobs :
      (j \in Objs /\ Registered(j) /\ now - created_at[j] > JobMaxAge)
        ~> (j \in Objs /\ ~Registered(j))

\* the segments of the input in the order the merged tensor holds them
InOrder(out) == SelectSeq(out, LAMBDA p : p.k # 0)

\* the tensor lines 141-144 build from the segment list
Assembled(segs, sr) ==
    IF Len(segs) > 1 THEN merge_audio_with_crossfade(segs, sr)
                     ELSE <<Piece(1, segs[1], FALSE, FALSE)>>

\* C27: chunk order is kept from plan to assembly: while chunk i (counted
\* from 0) is in work the list holds the segments of chunks 0..i-1; a
\* segment (generated audio or the silence placeholder) is only ever added
\* at the end, as the segment of chunk i; when the loop has finished there is
\* one segment per planned chunk and at least one; and the assembled audio
\* holds the segments in list order.
C27_ChunkOrder ==
    /\ [](\A j \in Objs :
            /\ loc[j].pc \in {"chunk", "seed", "generate"}
                 => /\ Len(loc[j].audio_segments) = loc[j].i
                    /\ loc[j].i < loc[j].total_chunks
            /\ loc[j].pc \in {"assemble", "merge"}
                 => /\ Len(loc[j].audio_segments) = loc[j].total_chunks
                    /\ Len(loc[j].audio_segments) >= 1)
    /\ [][\A j \in Objs :
            LET segs == loc[j].audio_segments
                new == loc'[j].audio_segments
            IN /\ (new # segs /\ new # <<>>)
                    => /\ loc[j].pc = "generate"
                       /\ Len(new) = Len(segs) + 1
                       /\ SubSeq(new, 1, Len(segs)) = segs
                       /\ Len(segs) = loc[j].i
                       /\ new[Len(new)].src \in {"gen", "zeros"}
               /\ (loc[j].pc = "merge" /\ loc'[j].pc = "save")
                    => LET out == Assembled(segs, loc[j].sr)
                       IN /\ loc'[j].wav = PiecesLen(out)
                          /\ Len(InOrder(out)) = Len(segs)
                          /\ \A k \in 1..Len(segs) :
                               InOrder(out)[k].k = k /\ InOrder(out)[k].seg = segs[k]
          ]_vars

\* the loop has finished for two chunks: the first segment is the silence
\* placeholder of chunk 0 and the second the audio generated for chunk 1
C27_Witness ==
    \E j \in Objs :
      /\ loc[j].pc = "merge"
      /\ loc[j].total_chunks = 2
      /\ Len(loc[j].audio_segments) = 2
      /\ loc[j].audio_segments[1].src = "zeros"
      /\ loc[j].audio_segments[2].src = "gen"

\* C29 as stated: in every state a job with a result path is Completed and
\* a job with an error message is Failed.
C29_OnlyOnTerminal ==
    \A j \in Objs :
      /\ result_path[j] # NoPath => status[j] = "completed"
      /\ error[j] # None => status[j] = "failed"

\* C29: a job with a result path is Completed, or is Processing between the
\* assignment of result_path (line 158) and the assignment of the status
\* (line 159); a job with an error message is Failed.
C29_ResultBeforeCompleted ==
    \A j \in Objs :
      /\ result_path[j] # NoPath
           => \/ status[j] = "completed"
              \/ status[j] = "processing" /\ loc[j].pc = "set_completed"
      /\ error[j] # None => status[j] = "failed"

\* one job is between lines 158 and 159, another has failed with a message
C29_Witness ==
    \E j, k \in Objs :
      /\ result_path[j] # NoPath
      /\ result_path[j] \in files
      /\ status[j] = "processing"
      /\ status[k] = "failed"
      /\ error[k] # None

\* the output file job j has written: the one its result_path names, or the
\* one just saved at line 156 and about to be assigned at line 158
Written(j) ==
    IF result_path[j] # NoPath THEN result_path[j] ELSE loc[j].filepath

\* C30: reclamation orphans no artifact: an output file a job has written
\* and that still exists belongs to a job that is still in the registry,
\* also when the entry is reclaimed while the job is Processing.  (Jobs
\* whose id another job shares are left out: their entry is displaced at
\* submission, not by reclamation.)
C30_NoOrphan ==
    \A j \in Objs :
      (/\ Written(j) # NoPath
       /\ Written(j) \in files
       /\ \A k \in Objs \ {j} : id[k] # id[j])
        => Registered(j)

\* C21: for chunk i of a job with base seed b the attempts are numbered 0, 1,
\* 2 in order and are at most 3; attempt a sets the seed b + i + 100*a and
\* the call of generate follows it; after a successful attempt the loop
\* moves to the next chunk, and another attempt is made only after the
\* previous one raised a RuntimeError.
C21_SeedPerAttempt ==
    [][\A j \in Objs :
         LET f == loc[j]
             g == loc'[j]
         IN /\ (f.pc = "load" /\ g.pc # "load")
                 => f.actual_seed \in ActualSeeds(params[j].seed)
            /\ (f.pc = "chunk" /\ g.pc # "chunk")
                 => g.pc = "seed" /\ g.attempt = 0 /\ g.i = f.i
            /\ (f.pc = "seed" /\ g.pc # "seed")
                 => /\ f.attempt \in 0..2
                    /\ g.pc = "generate"
                    /\ g.attempt = f.attempt /\ g.i = f.i
                    /\ g.actual_seed = f.actual_seed
                    /\ torch_seed' = f.actual_seed + f.i + 100 * f.attempt
            /\ (g.pc = "generate" /\ f.pc # "generate") => f.pc = "seed"
            /\ (f.pc = "generate" /\ g # f)
                 => \/ /\ g.pc \in {"chunk", "assemble"}
                       /\ g.i = f.i + 1
                       /\ g.audio_segments
                            = Append(f.audio_segments, Tensor("gen", 7))
                    \/ /\ g.pc = "seed"
                       /\ f.attempt < 2
                       /\ g.attempt = f.attempt + 1
                       /\ g.i = f.i
                       /\ g.actual_seed = f.actual_seed
                       /\ g.audio_segments = f.audio_segments
                    \/ /\ g.pc \in {"chunk", "assemble"}
                       /\ f.attempt = 2
                       /\ g.i = f.i + 1
                       /\ g.audio_segments
                            = Append(f.audio_segments, Silence(f.sr))
                    \/ g.pc = "except"]_vars

\* a job that asked for a random seed (3 was drawn) is at the call of the
\* third attempt of its second chunk, seeded with 3 + 1 + 200
C21_Witness ==
    \E j \in Objs :
      /\ params[j].seed = -1
      /\ loc[j].pc = "generate"
      /\ loc[j].i = 1
      /\ loc[j].attempt = 2
      /\ torch_seed = 204

\* C28: when a job is at its call of generate, the seed in effect in the
\* global generator is the job's own actual_seed + i + 100*attempt: no other
\* job's seeding or generating comes between a job's manual_seed and its
\* call.
C28_SeedNotDisturbed ==
    \A j \in Objs :
      (loc[j].pc = "generate" /\ loc[j].tts # NoModel)
        => torch_seed = loc[j].actual_seed + loc[j].i + 100 * loc[j].attempt
============================================================================
